---- MODULE Spec2Model ----
(***************************************************************************)
(* A model of mymoney/geektrust.py: the command parser                     *)
(* (parse_list_2_commands), Asset, InvestorPortfolio and the MoneyBank     *)
(* engine that dispatches the parsed commands (execute_investor_commands). *)
(*                                                                         *)
(* Numbers.  Every value token is parsed by float(); the model keeps the   *)
(* parsed number as an exact decimal fraction [n |-> numerator,            *)
(* d |-> power of ten], reduced so that equal numbers have one             *)
(* representation.  Allocations are Python ints.  int(x) truncates toward  *)
(* zero.  The arithmetic of the model is exact; on the input lines of      *)
(* Lines the IEEE-754 evaluation done by Python yields the same integers.  *)
(*                                                                         *)
(* Exceptions.  Nothing in the program catches an exception, so a raised   *)
(* exception ends the run: it is recorded in the variable error and no     *)
(* further command is processed.  The fields assigned before the raise     *)
(* keep their new values.                                                  *)
(***************************************************************************)
EXTENDS Integers, Sequences, FiniteSets, TLC

VARIABLES
    assets,         \* InvestorPortfolio.assets: investor -> asset names, in dict order
    weight,         \* Asset._weight:            investor -> asset -> percent
    allocation,     \* Asset._allocation:        investor -> asset -> int
    sip,            \* InvestorPortfolio.sip:    investor -> (asset -> number)
    current_month,  \* MoneyBank.current_month, NoMonth while the attribute is not set
    log,            \* MoneyBank.log:            month key -> (investor -> balances)
    out,            \* the lines printed to standard output
    error,          \* "" while running, else the name of the exception that ended the run
    hist,           \* the input lines consumed so far, each with the investor it ran for
    prev            \* the engine state before the last consumed line

vars == <<assets, weight, allocation, sip, current_month, log, out, error, hist, prev>>

----------------------------------------------------------------------------
(* Bounds of the model *)

\* the number of input lines of one run
MaxCmds == 4

\* the number of input lines of a run whose construction is under study
MaxCmdsConstructed == 2

\* the number of input lines dispatched to an engine that holds two portfolios
MaxCmdsTwo == 3

----------------------------------------------------------------------------
(* Program constants *)

SIP_MONTH == 2

REBALANCE_MONTHS == {6, 12}

REBALANCE_ERROR_MSG == "CANNOT_REBALANCE"

\* len(MONTH_NUMBER_): the number of keys MoneyBank.__init__ gives the log
NumLogKeys == 12

\* the value current_month has in the model while the attribute does not exist
NoMonth == -1

\* calendar.month_name, lower-cased, without its empty first entry
MonthNames ==
    <<"january", "february", "march", "april", "may", "june", "july",
      "august", "september", "october", "november", "december">>

\* MONTH_NUMBER_ = {january: 1, february: 2, ...}
MONTH_NUMBER_ == [i \in 1..Len(MonthNames) |-> MonthNames[i]]

----------------------------------------------------------------------------
(* Strings.  A token is a TLA+ string; str.lower(), str.replace() and the  *)
(* "in" test are modelled character by character.                          *)

UpperCase == "ABCDEFGHIJKLMNOPQRSTUVWXYZ"

LowerCase == "abcdefghijklmnopqrstuvwxyz"

DecimalDigits == "0123456789"

CharAt(s, i) == SubSeq(s, i, i)

Chars(s) == [i \in 1..Len(s) |-> CharAt(s, i)]

Min(a, b) == IF a <= b THEN a ELSE b

\* one character of str.lower()
LowerChar(c) ==
    IF \E k \in 1..Len(UpperCase) : CharAt(UpperCase, k) = c
    THEN CharAt(LowerCase, CHOOSE k \in 1..Len(UpperCase) : CharAt(UpperCase, k) = c)
    ELSE c

RECURSIVE lower(_)
\* str.lower()
lower(s) ==
    IF Len(s) = 0 THEN "" ELSE LowerChar(CharAt(s, 1)) \o lower(SubSeq(s, 2, Len(s)))

RECURSIVE RemovePercent(_)
\* value.replace("%", "")
RemovePercent(s) ==
    IF Len(s) = 0 THEN ""
    ELSE (IF CharAt(s, 1) = "%" THEN "" ELSE CharAt(s, 1))
         \o RemovePercent(SubSeq(s, 2, Len(s)))

\* "%" in value
HasPercent(s) == \E i \in 1..Len(s) : CharAt(s, i) = "%"

----------------------------------------------------------------------------
(* Numbers: float() of a decimal literal, as an exact reduced fraction.    *)

IsDigit(c) == \E k \in 1..Len(DecimalDigits) : CharAt(DecimalDigits, k) = c

DigitValue(c) == (CHOOSE k \in 1..Len(DecimalDigits) : CharAt(DecimalDigits, k) = c) - 1

RECURSIVE Pow10(_)
Pow10(k) == IF k = 0 THEN 1 ELSE 10 * Pow10(k - 1)

RECURSIVE DigitsValue(_)
\* the value of a sequence of digit characters
DigitsValue(ds) ==
    IF Len(ds) = 0 THEN 0
    ELSE 10 * DigitsValue(SubSeq(ds, 1, Len(ds) - 1)) + DigitValue(ds[Len(ds)])

RECURSIVE Reduce(_, _)
\* a float has one value whatever the spelling: 0.50 = 0.5, 0.00 = 0
Reduce(n, d) == IF d > 1 /\ n % 10 = 0 THEN Reduce(n \div 10, d \div 10) ELSE [n |-> n, d |-> d]

\* float(s) for s of the form [+-] digits [. digits] with at least one digit;
\* any other string of the modelled alphabet raises ValueError (ok = FALSE).
\* Exponents, "inf", "nan" and "_" separators are outside the modelled inputs.
float(s) ==
    LET signed == Len(s) > 0 /\ CharAt(s, 1) \in {"-", "+"}
        body   == IF signed THEN SubSeq(s, 2, Len(s)) ELSE s
        cs     == Chars(body)
        dots   == {i \in 1..Len(cs) : cs[i] = "."}
        ok     == /\ Cardinality(dots) <= 1
                  /\ \A i \in 1..Len(cs) : i \in dots \/ IsDigit(cs[i])
                  /\ \E i \in 1..Len(cs) : IsDigit(cs[i])
        digits == SelectSeq(cs, IsDigit)
        frac   == IF dots = {} THEN 0 ELSE Len(cs) - (CHOOSE i \in dots : TRUE)
        mag    == DigitsValue(digits)
        num    == IF signed /\ CharAt(s, 1) = "-" THEN 0 - mag ELSE mag
    IN  IF ok THEN [ok |-> TRUE, v |-> Reduce(num, Pow10(frac))]
        ELSE [ok |-> FALSE, v |-> [n |-> 0, d |-> 1]]

\* parse_nums without the division by 100
PercentNotScaled(value) == float(RemovePercent(value))

\* parse_nums: a token with a percent sign is stripped of it and divided by 100
parse_nums(value) ==
    IF HasPercent(value)
    THEN LET f == float(RemovePercent(value))
         IN  [ok |-> f.ok, v |-> Reduce(f.v.n, f.v.d * 100)]
    ELSE float(value)

\* list_of_strings_2_floats: the list comprehension raises when one token does
list_of_strings_2_floats(strings) ==
    [ok |-> \A i \in 1..Len(strings) : parse_nums(strings[i]).ok,
     v  |-> [i \in 1..Len(strings) |-> parse_nums(strings[i]).v]]

----------------------------------------------------------------------------
(* Command parser *)

\* name_of_the_month.lower() in MONTH_NUMBER_
IsMonthName(token) == \E i \in DOMAIN MONTH_NUMBER_ : MONTH_NUMBER_[i] = lower(token)

month_number_from_name(name_of_the_month) ==
    CHOOSE i \in DOMAIN MONTH_NUMBER_ : MONTH_NUMBER_[i] = lower(name_of_the_month)

\* a pairing that gives every asset a value, zero where the line has none
ZipPadded(asset_order, values) ==
    [a \in {asset_order[i] : i \in 1..Len(asset_order)} |->
        LET i == CHOOSE j \in 1..Len(asset_order) : asset_order[j] = a
        IN  IF i <= Len(values) THEN values[i] ELSE [n |-> 0, d |-> 1]]

\* dict(zip(asset_order, values)): pairs up to the shorter of the two
Zip(asset_order, values) ==
    LET k == Min(Len(asset_order), Len(values))
    IN  [a \in {asset_order[i] : i \in 1..k} |->
            values[CHOOSE i \in 1..k : asset_order[i] = a]]

\* the empty dict
EmptyDict == [a \in {} |-> 0]

\* One iteration of the loop of parse_list_2_commands for the line `commands`:
\*   kind "none"    - nothing is yielded (a line without tokens),
\*   kind "error"   - a value token raises ValueError,
\*   kind "command" - Command(name, values, month) is yielded.
ParseLine(commands, asset_order) ==
    IF Len(commands) < 2
    THEN IF Len(commands) = 0
         THEN [kind |-> "none", name |-> "", values |-> EmptyDict, month |-> 0]
         ELSE [kind |-> "command", name |-> lower(commands[1]),
               values |-> EmptyDict, month |-> 0]
    ELSE LET remaining     == Tail(commands)
             is_month_name == IsMonthName(remaining[Len(remaining)])
             string_values == IF is_month_name
                              THEN SubSeq(remaining, 1, Len(remaining) - 1)
                              ELSE remaining
             month         == IF is_month_name
                              THEN month_number_from_name(remaining[Len(remaining)])
                              ELSE 0
             floats        == list_of_strings_2_floats(string_values)
         IN  IF floats.ok
             THEN [kind |-> "command", name |-> lower(commands[1]),
                   values |-> Zip(asset_order, floats.v), month |-> month]
             ELSE [kind |-> "error", name |-> lower(commands[1]),
                   values |-> EmptyDict, month |-> month]

----------------------------------------------------------------------------
(* Asset *)

\* int(n / d): truncation toward zero
bank_rounding_system(n, d) == IF n >= 0 THEN n \div d ELSE 0 - ((0 - n) \div d)

\* Asset.weight setter: raises ValueError outside 0..100
WeightOk(w) == ~(w < 0 \/ w > 100)

\* self.allocation = value: the amount replaces the balance
SetAllocation(a, value) == bank_rounding_system(value.n, value.d)

\* self.allocation += value, through the allocation setter
AddAllocation(a, value) == bank_rounding_system(a * value.d + value.n, value.d)

\* Asset.monthly_rate_of_change: self.allocation *= 1 + rate
monthly_rate_of_change(a, rate) == bank_rounding_system(a * (rate.d + rate.n), rate.d)

----------------------------------------------------------------------------
(* InvestorPortfolio: the operations on one investor's asset -> allocation *)

RECURSIVE SumSeq(_)
SumSeq(q) == IF Len(q) = 0 THEN 0 ELSE q[1] + SumSeq(Tail(q))

\* a check that lets every sum up to 100 pass
WeightsAtMost100(ws) == SumSeq(ws) <= 100

\* InvestorPortfolio.__init__: the weights must sum to 100
WeightsOk(ws) == ~(SumSeq(ws) # 100)

\* InvestorPortfolio.__init__: self.sip = {asset: float(0), ...}
InitialSip(order) == [a \in {order[i] : i \in 1..Len(order)} |-> [n |-> 0, d |-> 1]]

\* InvestorPortfolio.allocate.  The keys of values are asset names of the
\* portfolio (the parser takes them from its asset order), so no lookup fails.
allocate(alloc, values) ==
    [a \in DOMAIN alloc |->
        IF a \in DOMAIN values THEN AddAllocation(alloc[a], values[a]) ELSE alloc[a]]

\* InvestorPortfolio.add_sip
add_sip(alloc, stored_sip) == allocate(alloc, stored_sip)

\* InvestorPortfolio.change
change(alloc, rates) ==
    [a \in DOMAIN alloc |->
        IF a \in DOMAIN rates THEN monthly_rate_of_change(alloc[a], rates[a]) ELSE alloc[a]]

\* sum(asset.allocation for asset in self.assets.values())
total_allocation(alloc, order) == SumSeq([i \in 1..Len(order) |-> alloc[order[i]]])

RECURSIVE RebalanceFrom(_, _, _, _)
RebalanceFrom(alloc, order, w, i) ==
    IF i > Len(order) THEN alloc
    ELSE RebalanceFrom(
            [alloc EXCEPT ![order[i]] =
                bank_rounding_system(total_allocation(alloc, order) * w[order[i]], 100)],
            order, w, i + 1)

\* a rebalance that takes the total again for every asset, inside the loop
RunningTotalRebalance(alloc, order, w) == RebalanceFrom(alloc, order, w, 1)

\* InvestorPortfolio.rebalance: the total is taken once, before the loop
rebalance(alloc, order, w) ==
    [a \in DOMAIN alloc |-> bank_rounding_system(total_allocation(alloc, order) * w[a], 100)]

\* InvestorPortfolio.balance, and the list comprehensions of MoneyBank that
\* record a snapshot: the allocations in the order of the assets dict
balance(alloc, order) == [i \in 1..Len(order) |-> alloc[order[i]]]

----------------------------------------------------------------------------
(* MoneyBank *)

\* MoneyBank.__init__: self.log[i] = dict() for i in range(len(MONTH_NUMBER_))
LogKeys == 0..(NumLogKeys - 1)

InitialLog == [m \in LogKeys |-> EmptyDict]

\* a log that keeps, of all its entries, only the one just recorded
RecordAlone(lg, month, name, balances) ==
    [m \in DOMAIN lg |-> IF m = month THEN (name :> balances) ELSE EmptyDict]

\* self.log[month][name] = balances
Record(lg, month, name, balances) ==
    [lg EXCEPT ![month] =
        [n \in DOMAIN lg[month] \cup {name} |-> IF n = name THEN balances ELSE lg[month][n]]]

\* the contribution already due in the initial month
SipFromFirstMonth(month) == month >= 1

\* MoneyBank.change: if self.current_month >= self.SIP_MONTH
SipApplies(month) == month >= SIP_MONTH

\* a cursor that only moves forward
KeepLatestMonth(cur, month) == IF month > cur THEN month ELSE cur

\* MoneyBank.change: the assignment to self.current_month
SetCurrentMonth(cur, month) == month

\* the rate change applied before the contribution
RateBeforeSip(alloc, stored_sip, rates, month) ==
    IF month >= SIP_MONTH THEN add_sip(change(alloc, rates), stored_sip)
    ELSE change(alloc, rates)

\* MoneyBank.change: the allocations after add_sip (when due) and change
ChangedAllocation(alloc, stored_sip, rates, month) ==
    change(IF SipApplies(month) THEN add_sip(alloc, stored_sip) ELSE alloc, rates)

\* MoneyBank.rebalance: self.current_month not in self.REBALANCE_MONTHS
CanRebalance(cur) == cur \in REBALANCE_MONTHS

\* MoneyBank.balance: self.log[month][name] raises KeyError for a missing key
HasSnapshot(lg, month, name) == month \in DOMAIN lg /\ name \in DOMAIN lg[month]

\* print(*balances)
BalanceLine(balances) == [text |-> "", nums |-> balances]

\* print(self.REBALANCE_ERROR_MSG)
ErrorLine == [text |-> REBALANCE_ERROR_MSG, nums |-> <<>>]

\* print(*self.balance(investor_name, month))
PrintBalance(lg, month, name) == BalanceLine(lg[month][name])

----------------------------------------------------------------------------
(* The inputs of the model *)

\* main(): investor_name
Investors == {"John Doe"}

\* The portfolios a run is constructed with: the one of main() and a
\* two-asset one.  asset_order is the key order of the assets dict, as in main().
Portfolios ==
    { [order |-> <<"Equity", "Debt", "Gold">>, weights |-> <<60, 30, 10>>],
      [order |-> <<"Equity", "Debt">>,         weights |-> <<60, 40>>] }

\* the weights main() could hand to Asset(...): inside and outside 0..100
WeightChoices == {-10, 0, 10, 30, 40, 60, 100, 110}

\* the constructions tried: every asset order in use with every choice of weights
Trials ==
    UNION { { [order |-> o, weights |-> ws] : ws \in [1..Len(o) -> WeightChoices] } :
              o \in {p.order : p \in Portfolios} }

\* The tokenized input lines (read_file_2_list) a run draws its commands from
Lines ==
    { <<"ALLOCATE", "6000", "3000">>,
      <<"SIP", "100.5", "-200.5", "53">>,
      <<"CHANGE", "10%", "MARCH">>,
      <<"Change", "0%", "0.00%", "June">>,
      <<"CHANGE", "4.00%", "-10.00%", "DECEMBER">>,
      <<"CHANGE", "10%", "JANUARY">>,
      <<"change", "5%">>,
      <<"BALANCE", "MARCH">>,
      <<"BALANCE", "JUNE">>,
      <<"BALANCE">>,
      <<"REBALANCE">>,
      <<"Deposit", "500", "MARCH">>,
      <<"ALLOCATE", "10.7", "-0.5">>,
      <<"SIP", "20">>,
      <<"ALLOCATE", "1O0">>,
      <<>> }

----------------------------------------------------------------------------
(* The state machine: one step per input line of execute_investor_commands *)

\* the engine state a step starts from, kept for the properties
Snapshot ==
    [allocation |-> allocation, sip |-> sip, current_month |-> current_month,
     log |-> log, out |-> out]

\* a successful rebalance that prints nothing
NothingPrinted(o, lg, month, name) == o

\* execute_investor_commands: if self.rebalance(name): print(*self.balance(name, current_month))
PrintedAfterRebalance(o, lg, month, name) == Append(o, PrintBalance(lg, month, name))

\* the state after InvestorPortfolio(...) and MoneyBank([investor])
Init ==
    \E p \in Portfolios :
        /\ WeightsOk(p.weights)
        /\ \A i \in 1..Len(p.weights) : WeightOk(p.weights[i])
        /\ assets = [name \in Investors |-> p.order]
        /\ weight = [name \in Investors |->
                        [a \in {p.order[i] : i \in 1..Len(p.order)} |->
                            p.weights[CHOOSE i \in 1..Len(p.order) : p.order[i] = a]]]
        /\ allocation = [name \in Investors |->
                            [a \in {p.order[i] : i \in 1..Len(p.order)} |-> 0]]
        /\ sip = [name \in Investors |-> InitialSip(p.order)]
        /\ current_month = NoMonth
        /\ log = InitialLog
        /\ out = <<>>
        /\ error = ""
        /\ hist = <<>>
        /\ prev = [allocation |-> allocation, sip |-> sip, current_month |-> NoMonth,
                   log |-> InitialLog, out |-> <<>>]

\* the next line is read while no exception has ended the run
Reads(name, line) ==
    /\ error = ""
    /\ Len(hist) < MaxCmds
    /\ hist' = Append(hist, [investor |-> name, line |-> line])
    /\ prev' = Snapshot

\* parse_list_2_commands on every input line, for every asset order in use
Commands ==
    [order \in {p.order : p \in Portfolios} |->
        [line \in Lines |-> ParseLine(line, order)]]

\* the Command the generator yields for the line
Cmd(name, line) == Commands[assets[name]][line]

\* Command(name=..., values=..., month=...)
Command(c) == [name |-> c.name, values |-> c.values, month |-> c.month]

RECURSIVE YieldsForEveryLine(_, _)
\* a generator that yields a Command with an empty name for a line without tokens
YieldsForEveryLine(list_of_commands, asset_order) ==
    IF Len(list_of_commands) = 0 THEN <<>>
    ELSE LET c == Commands[asset_order][Head(list_of_commands)]
         IN  IF c.kind = "error" THEN <<>>
             ELSE <<Command(c)>> \o YieldsForEveryLine(Tail(list_of_commands), asset_order)

RECURSIVE parse_list_2_commands(_, _)
\* the Commands the generator yields for the lines, in the order yielded, up to
\* the line on which float() raises
parse_list_2_commands(list_of_commands, asset_order) ==
    IF Len(list_of_commands) = 0 THEN <<>>
    ELSE LET c == Commands[asset_order][Head(list_of_commands)]
         IN  IF c.kind = "error" THEN <<>>
             ELSE IF c.kind = "none"
             THEN parse_list_2_commands(Tail(list_of_commands), asset_order)
             ELSE <<Command(c)>> \o parse_list_2_commands(Tail(list_of_commands), asset_order)

Dispatches(name, line, command) ==
    /\ Reads(name, line)
    /\ Cmd(name, line).kind = "command"
    /\ Cmd(name, line).name = command

\* float() raises ValueError inside the generator
ParseFails(name, line) ==
    /\ Reads(name, line)
    /\ Cmd(name, line).kind = "error"
    /\ error' = "ValueError"
    /\ UNCHANGED <<assets, weight, allocation, sip, current_month, log, out>>

\* a line without tokens yields no Command
SkipsLine(name, line) ==
    /\ Reads(name, line)
    /\ Cmd(name, line).kind = "none"
    /\ UNCHANGED <<assets, weight, allocation, sip, current_month, log, out, error>>

\* an allocate that reaches every portfolio of the engine
AllocateAll(name, line) ==
    /\ Dispatches(name, line, "allocate")
    /\ allocation' = [n \in DOMAIN allocation |-> allocate(allocation[n], Cmd(n, line).values)]
    /\ UNCHANGED <<assets, weight, sip, current_month, log, out, error>>

\* MoneyBank.allocate
Allocate(name, line) ==
    /\ Dispatches(name, line, "allocate")
    /\ allocation' = [allocation EXCEPT ![name] = allocate(@, Cmd(name, line).values)]
    /\ UNCHANGED <<assets, weight, sip, current_month, log, out, error>>

\* a sip that merges the new amounts into the stored mapping
SipMerges(name, line) ==
    /\ Dispatches(name, line, "sip")
    /\ sip' = [sip EXCEPT ![name] = Cmd(name, line).values @@ @]
    /\ UNCHANGED <<assets, weight, allocation, current_month, log, out, error>>

\* MoneyBank.sip
Sip(name, line) ==
    /\ Dispatches(name, line, "sip")
    /\ sip' = [sip EXCEPT ![name] = Cmd(name, line).values]
    /\ UNCHANGED <<assets, weight, allocation, current_month, log, out, error>>

\* MoneyBank.change
Change(name, line) ==
    LET month == Cmd(name, line).month
        new   == ChangedAllocation(allocation[name], sip[name],
                                   Cmd(name, line).values, month)
    IN  /\ Dispatches(name, line, "change")
        /\ current_month' = SetCurrentMonth(current_month, month)
        /\ allocation' = [allocation EXCEPT ![name] = new]
        /\ IF month \in DOMAIN log
           THEN /\ log' = Record(log, month, name, balance(new, assets[name]))
                /\ error' = error
           ELSE /\ log' = log
                /\ error' = "KeyError"
        /\ UNCHANGED <<assets, weight, sip, out>>

\* a balance command that prints the current allocations, whatever was recorded
BalanceOfAllocations(name, line) ==
    /\ Dispatches(name, line, "balance")
    /\ out' = Append(out, BalanceLine(balance(allocation[name], assets[name])))
    /\ UNCHANGED <<assets, weight, allocation, sip, current_month, log, error>>

\* print(*self.balance(investor_name, month))
Balance(name, line) ==
    LET month == Cmd(name, line).month
    IN  /\ Dispatches(name, line, "balance")
        /\ IF HasSnapshot(log, month, name)
           THEN /\ out' = Append(out, PrintBalance(log, month, name))
                /\ error' = error
           ELSE /\ out' = out
                /\ error' = "KeyError"
        /\ UNCHANGED <<assets, weight, allocation, sip, current_month, log>>

\* a rebalance that stores each asset's share as its weight
RebalanceSetsWeight(name, line) ==
    LET new    == rebalance(allocation[name], assets[name], weight[name])
        newlog == Record(log, current_month, name, balance(new, assets[name]))
    IN  /\ Dispatches(name, line, "rebalance")
        /\ IF current_month = NoMonth
           THEN /\ error' = "AttributeError"
                /\ UNCHANGED <<allocation, weight, log, out>>
           ELSE IF ~CanRebalance(current_month)
           THEN /\ out' = Append(out, ErrorLine)
                /\ UNCHANGED <<allocation, weight, log, error>>
           ELSE /\ allocation' = [allocation EXCEPT ![name] = new]
                /\ weight' = [weight EXCEPT ![name] = new]
                /\ IF current_month \in DOMAIN log
                   THEN /\ log' = newlog
                        /\ out' = PrintedAfterRebalance(out, newlog, current_month, name)
                        /\ error' = error
                   ELSE /\ log' = log
                        /\ out' = out
                        /\ error' = "KeyError"
        /\ UNCHANGED <<assets, sip, current_month>>

\* MoneyBank.rebalance and the print that follows a True result
Rebalance(name, line) ==
    LET new    == rebalance(allocation[name], assets[name], weight[name])
        newlog == Record(log, current_month, name, balance(new, assets[name]))
    IN  /\ Dispatches(name, line, "rebalance")
        /\ IF current_month = NoMonth
           THEN /\ error' = "AttributeError"
                /\ UNCHANGED <<allocation, log, out>>
           ELSE IF ~CanRebalance(current_month)
           THEN /\ out' = Append(out, ErrorLine)
                /\ UNCHANGED <<allocation, log, error>>
           ELSE /\ allocation' = [allocation EXCEPT ![name] = new]
                /\ IF current_month \in DOMAIN log
                   THEN /\ log' = newlog
                        /\ out' = PrintedAfterRebalance(out, newlog, current_month, name)
                        /\ error' = error
                   ELSE /\ log' = log
                        /\ out' = out
                        /\ error' = "KeyError"
        /\ UNCHANGED <<assets, weight, sip, current_month>>

\* the command names execute_investor_commands has a branch for
Known == {"allocate", "sip", "change", "balance", "rebalance"}

\* a command without a branch that still moves the engine to its month
IgnoreSetsMonth(name, line) ==
    /\ Reads(name, line)
    /\ Cmd(name, line).kind = "command"
    /\ Cmd(name, line).name \notin Known
    /\ current_month' = Cmd(name, line).month
    /\ UNCHANGED <<assets, weight, allocation, sip, log, out, error>>

\* no branch of execute_investor_commands matches the name
Ignore(name, line) ==
    /\ Reads(name, line)
    /\ Cmd(name, line).kind = "command"
    /\ Cmd(name, line).name \notin Known
    /\ UNCHANGED <<assets, weight, allocation, sip, current_month, log, out, error>>

Next ==
    \E name \in Investors, line \in Lines :
        \/ ParseFails(name, line)
        \/ SkipsLine(name, line)
        \/ Allocate(name, line)
        \/ Sip(name, line)
        \/ Change(name, line)
        \/ Balance(name, line)
        \/ Rebalance(name, line)
        \/ Ignore(name, line)

Spec == Init /\ [][Next]_vars

\* the investors of an engine that holds two portfolios
TwoInvestors == {"John Doe", "Jane Roe"}

\* the input lines dispatched to the two portfolios
LinesTwo ==
    { <<"ALLOCATE", "6000", "3000">>,
      <<"SIP", "20">>,
      <<"CHANGE", "10%", "MARCH">>,
      <<"Change", "0%", "0.00%", "June">>,
      <<"BALANCE", "MARCH">>,
      <<"REBALANCE">>,
      <<"Deposit", "500", "MARCH">>,
      <<"ALLOCATE", "1O0">>,
      <<>> }

\* the state after MoneyBank([investor, other]) with two different portfolios
InitTwo ==
    \E ps \in [TwoInvestors -> Portfolios] :
        /\ ps["John Doe"] # ps["Jane Roe"]
        /\ \A name \in TwoInvestors :
              /\ WeightsOk(ps[name].weights)
              /\ \A i \in 1..Len(ps[name].weights) : WeightOk(ps[name].weights[i])
        /\ assets = [name \in TwoInvestors |-> ps[name].order]
        /\ weight = [name \in TwoInvestors |->
                        [a \in {ps[name].order[i] : i \in 1..Len(ps[name].order)} |->
                            ps[name].weights[CHOOSE i \in 1..Len(ps[name].order) :
                                                ps[name].order[i] = a]]]
        /\ allocation = [name \in TwoInvestors |->
                            [a \in {ps[name].order[i] : i \in 1..Len(ps[name].order)} |-> 0]]
        /\ sip = [name \in TwoInvestors |-> InitialSip(ps[name].order)]
        /\ current_month = NoMonth
        /\ log = InitialLog
        /\ out = <<>>
        /\ error = ""
        /\ hist = <<>>
        /\ prev = [allocation |-> allocation, sip |-> sip, current_month |-> NoMonth,
                   log |-> InitialLog, out |-> <<>>]

\* execute_investor_commands(name, [line], assets_order), called for either
\* investor of the engine with the next line of its input
NextTwo ==
    \E name \in TwoInvestors, line \in LinesTwo :
        \/ Len(hist) < MaxCmdsTwo /\ ParseFails(name, line)
        \/ Len(hist) < MaxCmdsTwo /\ SkipsLine(name, line)
        \/ Len(hist) < MaxCmdsTwo /\ Allocate(name, line)
        \/ Len(hist) < MaxCmdsTwo /\ Sip(name, line)
        \/ Len(hist) < MaxCmdsTwo /\ Change(name, line)
        \/ Len(hist) < MaxCmdsTwo /\ Balance(name, line)
        \/ Len(hist) < MaxCmdsTwo /\ Rebalance(name, line)
        \/ Len(hist) < MaxCmdsTwo /\ Ignore(name, line)

SpecTwo == InitTwo /\ [][NextTwo]_vars

\* Asset(name=name, weight=weight) for every asset, then InvestorPortfolio(...):
\* the exception the construction ends with, "" when it ends with none
Construction(ws) ==
    IF \E i \in 1..Len(ws) : ~WeightOk(ws[i]) THEN "ValueError"
    ELSE IF ~WeightsOk(ws) THEN "ValueError"
    ELSE ""

\* main() up to MoneyBank([investor]) with the weights of a trial.  weight
\* holds the weights main() passed; after a failed construction no portfolio
\* exists and error holds the exception that ended the run.
InitConstructs ==
    \E p \in Trials :
        /\ assets = [name \in Investors |-> p.order]
        /\ weight = [name \in Investors |->
                        [a \in {p.order[i] : i \in 1..Len(p.order)} |->
                            p.weights[CHOOSE i \in 1..Len(p.order) : p.order[i] = a]]]
        /\ allocation = [name \in Investors |->
                            [a \in {p.order[i] : i \in 1..Len(p.order)} |-> 0]]
        /\ sip = [name \in Investors |-> InitialSip(p.order)]
        /\ current_month = NoMonth
        /\ log = InitialLog
        /\ out = <<>>
        /\ error = Construction(p.weights)
        /\ hist = <<>>
        /\ prev = [allocation |-> allocation, sip |-> sip, current_month |-> NoMonth,
                   log |-> InitialLog, out |-> <<>>]

\* execute_investor_commands on the first lines of the input
NextConstructed ==
    \E name \in Investors, line \in Lines :
        \/ Len(hist) < MaxCmdsConstructed /\ ParseFails(name, line)
        \/ Len(hist) < MaxCmdsConstructed /\ SkipsLine(name, line)
        \/ Len(hist) < MaxCmdsConstructed /\ Allocate(name, line)
        \/ Len(hist) < MaxCmdsConstructed /\ Sip(name, line)
        \/ Len(hist) < MaxCmdsConstructed /\ Change(name, line)
        \/ Len(hist) < MaxCmdsConstructed /\ Balance(name, line)
        \/ Len(hist) < MaxCmdsConstructed /\ Rebalance(name, line)
        \/ Len(hist) < MaxCmdsConstructed /\ Ignore(name, line)

SpecConstructs == InitConstructs /\ [][NextConstructed]_vars

----------------------------------------------------------------------------
(* Vocabulary of the properties.  A property speaks of the last consumed   *)
(* line, the state before it (prev) and the state after it.                *)

Last == hist[Len(hist)]

LastCmd == Cmd(Last.investor, Last.line)

\* the last line was dispatched as the command c
Ran(c) == Len(hist) > 0 /\ LastCmd.kind = "command" /\ LastCmd.name = c

\* truncation of the fraction n / d toward zero
Truncate(n, d) == IF n >= 0 THEN n \div d ELSE 0 - ((0 - n) \div d)

Abs(x) == IF x >= 0 THEN x ELSE 0 - x

ZeroAmount == [n |-> 0, d |-> 1]

\* the amount a mapping holds for an asset, zero when it holds none
AmountOf(values, a) == IF a \in DOMAIN values THEN values[a] ELSE ZeroAmount

\* truncate(a + s) and truncate(a * (1 + r))
Plus(a, s) == Truncate(a * s.d + s.n, s.d)

Times(a, r) == Truncate(a * (r.d + r.n), r.d)

\* the balances of an investor in the portfolio's asset order
BalancesOf(alloc, name) == [i \in 1..Len(assets[name]) |-> alloc[name][assets[name][i]]]

Total(alloc, name) == SumSeq(BalancesOf(alloc, name))

\* what a rebalance makes of the allocations alloc
Rebalanced(alloc, name) ==
    [a \in DOMAIN alloc[name] |-> Truncate(Total(alloc, name) * weight[name][a], 100)]

CannotRebalance == [text |-> "CANNOT_REBALANCE", nums |-> <<>>]

Printed(balances) == [text |-> "", nums |-> balances]

----------------------------------------------------------------------------
(* C1 *)

\* C1: every change command whose month is one of the calendar months 1..12
\* sets current_month to that month and finishes normally, having recorded
\* for (current_month, portfolio) the balances of that moment in asset order.
C1_ChangeRecordsSnapshot ==
    Ran("change") /\ LastCmd.month \in 1..12 =>
        /\ error = ""
        /\ current_month = LastCmd.month
        /\ LastCmd.month \in DOMAIN log
        /\ Last.investor \in DOMAIN log[LastCmd.month]
        /\ log[LastCmd.month][Last.investor] = BalancesOf(allocation, Last.investor)

----------------------------------------------------------------------------
(* C2 *)

\* C2: a rebalance command issued while current_month is not 6 or 12 (also
\* before any change command) changes no allocation, contribution,
\* current_month or snapshot and prints exactly CANNOT_REBALANCE.
C2_RebalanceRejected ==
    Ran("rebalance") /\ prev.current_month \notin {6, 12} =>
        /\ error = ""
        /\ allocation = prev.allocation
        /\ sip = prev.sip
        /\ current_month = prev.current_month
        /\ log = prev.log
        /\ out = Append(prev.out, CannotRebalance)

----------------------------------------------------------------------------
(* C3 *)

\* C3: whenever the last change command was for June or for December, so that
\* current_month is 6 or 12, the engine takes a rebalance command, and the
\* rebalance sets every allocation to truncate(total * weight / 100) with the
\* total taken beforehand, overwrites the snapshot of (current_month,
\* portfolio) with the new balances and prints them.
C3_RebalanceInJuneAndDecember ==
    /\ Ran("change") /\ LastCmd.month \in {6, 12} =>
            error = "" /\ current_month = LastCmd.month
    /\ Ran("rebalance") /\ prev.current_month \in {6, 12} =>
            /\ error = ""
            /\ allocation[Last.investor] = Rebalanced(prev.allocation, Last.investor)
            /\ current_month \in DOMAIN log
            /\ Last.investor \in DOMAIN log[current_month]
            /\ log[current_month][Last.investor] = BalancesOf(allocation, Last.investor)
            /\ out = Append(prev.out, Printed(BalancesOf(allocation, Last.investor)))

----------------------------------------------------------------------------
(* C4 *)

\* the allocation of asset a after a change command that adds the stored
\* contribution first and applies the rate to the sum
SipThenRate(a) ==
    Times(Plus(prev.allocation[Last.investor][a], AmountOf(prev.sip[Last.investor], a)),
          AmountOf(LastCmd.values, a))

\* C4: a change command with month >= 2 leaves every asset at
\* truncate(truncate(a + s) * (1 + r)): the contribution s is added before
\* the rate r is applied (an asset without a stored contribution or without a
\* rate counts with s = 0 or r = 0).
C4_SipBeforeRate ==
    Ran("change") /\ LastCmd.month >= 2 =>
        \A a \in DOMAIN allocation[Last.investor] :
            allocation[Last.investor][a] = SipThenRate(a)

\* a change command with month >= 2 on an asset with a contribution and a
\* rate, where adding the contribution after the rate gives another balance
C4_Witness ==
    /\ Ran("change") /\ LastCmd.month >= 2
    /\ \E a \in DOMAIN LastCmd.values \cap DOMAIN prev.sip[Last.investor] :
          LET s == prev.sip[Last.investor][a]
              r == LastCmd.values[a]
          IN  /\ s.n # 0 /\ r.n # 0
              /\ allocation[Last.investor][a] = SipThenRate(a)
              /\ allocation[Last.investor][a] * s.d
                    # Times(prev.allocation[Last.investor][a], r) * s.d + s.n

----------------------------------------------------------------------------
(* C5 *)

\* every rate of the last command is 0%
AllRatesZero == \A a \in DOMAIN LastCmd.values : LastCmd.values[a].n = 0

\* The contribution enters the allocations once in a change command with
\* month >= 2 and in no other step: a change with month < 2 applies the rates
\* alone, allocate adds its own amounts alone, a rebalance redistributes the
\* total, every other line leaves the allocations as they were.
ContributionOnlyInLateChange ==
    Len(hist) > 0 =>
        LET name == Last.investor
            old  == prev.allocation[name]
            new  == allocation[name]
        IN  /\ Ran("change") /\ LastCmd.month >= 2 =>
                  \A a \in DOMAIN new :
                      new[a] = Times(Plus(old[a], AmountOf(prev.sip[name], a)),
                                     AmountOf(LastCmd.values, a))
            /\ Ran("change") /\ LastCmd.month < 2 =>
                  \A a \in DOMAIN new : new[a] = Times(old[a], AmountOf(LastCmd.values, a))
            /\ Ran("allocate") =>
                  \A a \in DOMAIN new : new[a] = Plus(old[a], AmountOf(LastCmd.values, a))
            /\ Ran("rebalance") => new \in {old, Rebalanced(prev.allocation, name)}
            /\ ~(Ran("change") \/ Ran("allocate") \/ Ran("rebalance")) => new = old

\* C5 as claimed: the contribution is added once per change command with
\* month >= 2 and by nothing else, and a change with all rates 0% in a month
\* >= 2 increases each balance by exactly its sip amount.
C5_SipAddedExactly ==
    /\ ContributionOnlyInLateChange
    /\ Ran("change") /\ LastCmd.month >= 2 /\ AllRatesZero =>
          \A a \in DOMAIN prev.sip[Last.investor] :
              (allocation[Last.investor][a] - prev.allocation[Last.investor][a])
                  * prev.sip[Last.investor][a].d = prev.sip[Last.investor][a].n

\* C5 amended: the contribution is added once per change command with month
\* >= 2 and by nothing else; a change with all rates 0% in a month >= 2 takes
\* each balance a to truncate(a + s), which is an increase by exactly the sip
\* amount s when s is a whole number.
C5_SipAddedTruncated ==
    /\ ContributionOnlyInLateChange
    /\ Ran("change") /\ LastCmd.month >= 2 /\ AllRatesZero =>
          \A a \in DOMAIN prev.sip[Last.investor] :
              LET s == prev.sip[Last.investor][a]
              IN  /\ allocation[Last.investor][a]
                        = Truncate(prev.allocation[Last.investor][a] * s.d + s.n, s.d)
                  /\ s.d = 1 => allocation[Last.investor][a]
                                    = prev.allocation[Last.investor][a] + s.n

\* a 0% change in a month >= 2 with a whole contribution (added exactly) and a
\* fractional one (added truncated)
C5_Witness ==
    /\ Ran("change") /\ LastCmd.month >= 2 /\ AllRatesZero /\ error = ""
    /\ \E a \in DOMAIN prev.sip[Last.investor] :
          /\ prev.sip[Last.investor][a].d = 1 /\ prev.sip[Last.investor][a].n # 0
          /\ allocation[Last.investor][a]
                = prev.allocation[Last.investor][a] + prev.sip[Last.investor][a].n
    /\ \E a \in DOMAIN prev.sip[Last.investor] :
          /\ prev.sip[Last.investor][a].d > 1
          /\ (allocation[Last.investor][a] - prev.allocation[Last.investor][a])
                * prev.sip[Last.investor][a].d # prev.sip[Last.investor][a].n

----------------------------------------------------------------------------
(* C6 *)

\* the lines of the scenario, for one investor with the assets (Equity, Debt)
\* weighted 60/40
ScenarioLines ==
    << <<"ALLOCATE", "6000", "3000">>, <<"CHANGE", "10%", "MARCH">>, <<"BALANCE", "MARCH">> >>

\* the run has consumed the first k lines of the scenario and nothing else
InScenario(k) ==
    /\ Len(hist) = k
    /\ \A i \in 1..k : hist[i].line = ScenarioLines[i]
    /\ assets[hist[1].investor] = <<"Equity", "Debt">>
    /\ weight[hist[1].investor] = [a \in {"Equity", "Debt"} |-> IF a = "Equity" THEN 60 ELSE 40]

\* C6 as claimed: ALLOCATE 6000 3000, CHANGE 10% MARCH, BALANCE MARCH leave
\* Equity = 6600 and Debt = 3300 after the change, and the balance command
\* prints 6600 3300.
C6_ScenarioBothAssetsGrow ==
    /\ InScenario(2) => BalancesOf(allocation, Last.investor) = <<6600, 3300>>
    /\ InScenario(3) => /\ BalancesOf(allocation, Last.investor) = <<6600, 3300>>
                        /\ error = ""
                        /\ out = <<Printed(<<6600, 3300>>)>>

\* C6 amended: the single rate token of CHANGE 10% MARCH is paired with the
\* first asset only, so the lines leave Equity = 6600 and Debt = 3000 after
\* the change, and the balance command prints 6600 3000.
C6_ScenarioFirstAssetGrows ==
    /\ InScenario(2) => BalancesOf(allocation, Last.investor) = <<6600, 3000>>
    /\ InScenario(3) => /\ BalancesOf(allocation, Last.investor) = <<6600, 3000>>
                        /\ error = ""
                        /\ out = <<Printed(<<6600, 3000>>)>>

\* the scenario has run to its end
C6_Witness == InScenario(3) /\ error = "" /\ Len(out) = 1

----------------------------------------------------------------------------
(* C7 *)

RECURSIVE LastChangeMonth(_)
\* the month of the last change command among the lines h, NoMonth without one
LastChangeMonth(h) ==
    IF Len(h) = 0 THEN NoMonth
    ELSE LET c == Cmd(h[Len(h)].investor, h[Len(h)].line)
         IN  IF c.kind = "command" /\ c.name = "change" THEN c.month
             ELSE LastChangeMonth(SubSeq(h, 1, Len(h) - 1))

\* C7 as claimed: current_month never decreases, whatever months the change
\* commands carry.
C7_MonthNeverDecreases ==
    Len(hist) > 0 /\ prev.current_month # NoMonth => current_month >= prev.current_month

\* C7 amended: current_month is the month of the most recent change command
\* (0 when that command has no month token) and no other command assigns it;
\* it decreases exactly when a change command carries a smaller month than
\* the one before it.
C7_MonthOfLastChange ==
    /\ current_month = LastChangeMonth(hist)
    /\ Len(hist) > 0 /\ ~Ran("change") => current_month = prev.current_month
    /\ Len(hist) > 0 /\ prev.current_month # NoMonth =>
          (current_month < prev.current_month
              <=> Ran("change") /\ LastCmd.month < prev.current_month)

\* a change command has taken current_month back to an earlier month
C7_Witness ==
    /\ Ran("change") /\ error = ""
    /\ prev.current_month # NoMonth
    /\ current_month < prev.current_month

----------------------------------------------------------------------------
(* C8 *)

\* the snapshot of (m, name) is written only by a change command for month m
\* or by a permitted rebalance while current_month = m, and then holds the
\* balances of that moment: so the log always holds, for every month, the
\* snapshot recorded last.
LogHoldsLastRecorded ==
    Len(hist) > 0 =>
        \A m \in DOMAIN log :
            log[m] # prev.log[m] =>
                /\ \/ Ran("change") /\ LastCmd.month = m
                   \/ Ran("rebalance") /\ prev.current_month = m /\ m \in {6, 12}
                /\ Last.investor \in DOMAIN log[m]
                /\ log[m][Last.investor] = BalancesOf(allocation, Last.investor)
                /\ \A n \in DOMAIN prev.log[m] \ {Last.investor} :
                       n \in DOMAIN log[m] /\ log[m][n] = prev.log[m][n]

\* C8: a balance command for month m prints exactly the snapshot recorded
\* last for (m, portfolio), whatever the allocations are now, and fails with
\* a KeyError, printing and computing nothing, when none was recorded.
C8_BalancePrintsSnapshot ==
    /\ LogHoldsLastRecorded
    /\ Ran("balance") =>
          /\ allocation = prev.allocation /\ sip = prev.sip
          /\ current_month = prev.current_month /\ log = prev.log
          /\ IF LastCmd.month \in DOMAIN prev.log
                /\ Last.investor \in DOMAIN prev.log[LastCmd.month]
             THEN /\ error = ""
                  /\ out = Append(prev.out, Printed(prev.log[LastCmd.month][Last.investor]))
             ELSE /\ error = "KeyError"
                  /\ out = prev.out

\* a balance command has printed a snapshot that differs from the current
\* allocations
C8_Witness ==
    /\ Ran("balance") /\ error = ""
    /\ Len(out) = Len(prev.out) + 1
    /\ out[Len(out)].nums = log[LastCmd.month][Last.investor]
    /\ out[Len(out)].nums # BalancesOf(allocation, Last.investor)

----------------------------------------------------------------------------
(* C9 *)

\* the last line was a rebalance command that was permitted and went through
RebalanceWentThrough == Ran("rebalance") /\ prev.current_month \in {6, 12} /\ error = ""

\* C9: a permitted rebalance changes the total allocation by at most the
\* number of assets; so does InvestorPortfolio.rebalance on the allocations of
\* every state the engine reaches.
C9_RebalanceKeepsTotal ==
    /\ RebalanceWentThrough =>
          Abs(Total(allocation, Last.investor) - Total(prev.allocation, Last.investor))
              <= Len(assets[Last.investor])
    /\ \A name \in DOMAIN allocation :
          Abs(SumSeq(balance(rebalance(allocation[name], assets[name], weight[name]),
                             assets[name]))
              - Total(allocation, name)) <= Len(assets[name])

\* a permitted rebalance whose truncations have changed the total
C9_Witness ==
    /\ RebalanceWentThrough
    /\ allocation # prev.allocation
    /\ Total(allocation, Last.investor) # Total(prev.allocation, Last.investor)

----------------------------------------------------------------------------
(* C10 *)

RECURSIVE Printing(_)
\* the number of balance and rebalance commands among the lines h
Printing(h) ==
    IF Len(h) = 0 THEN 0
    ELSE LET c == Cmd(h[Len(h)].investor, h[Len(h)].line)
         IN  Printing(SubSeq(h, 1, Len(h) - 1))
             + (IF c.kind = "command" /\ c.name \in {"balance", "rebalance"} THEN 1 ELSE 0)

\* C10: while the run goes on without an exception, the output holds one line
\* per balance and per rebalance command consumed, in command order: the
\* recorded balances in asset order for a balance command and for a permitted
\* rebalance, CANNOT_REBALANCE for a rebalance that is not permitted; every
\* other line of the input prints nothing.
C10_OneLinePerQuery ==
    error = "" =>
        /\ Len(out) = Printing(hist)
        /\ Len(hist) > 0 =>
              IF Ran("balance")
              THEN out = Append(prev.out, Printed(log[LastCmd.month][Last.investor]))
              ELSE IF Ran("rebalance")
              THEN IF prev.current_month \in {6, 12}
                   THEN /\ out = Append(prev.out, Printed(BalancesOf(allocation, Last.investor)))
                        /\ out[Len(out)].nums = log[current_month][Last.investor]
                   ELSE out = Append(prev.out, CannotRebalance)
              ELSE out = prev.out

\* a run without exception that has printed a rejection and balances, and
\* has consumed a line that prints nothing
C10_Witness ==
    /\ error = ""
    /\ Len(hist) > Len(out)
    /\ \E i \in 1..Len(out) : out[i] = CannotRebalance
    /\ \E i \in 1..Len(out) : out[i].text = "" /\ Len(out[i].nums) = Len(assets[Last.investor])
    /\ \E i \in 1..Len(hist) :
          Cmd(hist[i].investor, hist[i].line).kind = "command"
          /\ Cmd(hist[i].investor, hist[i].line).name = "rebalance"
          /\ \E j \in 1..Len(hist) :
                Cmd(hist[j].investor, hist[j].line).kind = "command"
                /\ Cmd(hist[j].investor, hist[j].line).name = "balance"

----------------------------------------------------------------------------
(* C11 *)

\* the names execute_investor_commands dispatches on, as the claim lists them
DispatchedNames == {"allocate", "sip", "change", "balance", "rebalance"}

\* the i-th consumed line was yielded as a Command with a name outside the
\* dispatched ones
UnknownAt(i) ==
    LET c == Cmd(hist[i].investor, hist[i].line)
    IN  c.kind = "command" /\ c.name \notin DispatchedNames

\* C11: a Command whose name is none of allocate, sip, change, balance and
\* rebalance is ignored: it leaves the allocations, the recurring
\* contribution, current_month and the snapshot log as they were, prints
\* nothing and raises nothing, and the run goes on to the next line.
C11_UnknownCommandIgnored ==
    Len(hist) > 0 /\ UnknownAt(Len(hist)) =>
        /\ allocation = prev.allocation
        /\ sip = prev.sip
        /\ current_month = prev.current_month
        /\ log = prev.log
        /\ out = prev.out
        /\ error = ""
        /\ Len(hist) < MaxCmds =>
              ENABLED (\E line \in Lines : Allocate(Last.investor, line))

\* an ignored command that carried values and a month, and after it an
\* allocate command that took effect
C11_Witness ==
    /\ Ran("allocate") /\ error = ""
    /\ allocation # prev.allocation
    /\ \E i \in 1..(Len(hist) - 1) :
          /\ UnknownAt(i)
          /\ Cmd(hist[i].investor, hist[i].line).month # 0
          /\ Cmd(hist[i].investor, hist[i].line).values # EmptyDict

----------------------------------------------------------------------------
(* C12 *)

\* the weights of an investor's assets in asset order
WeightsOf(name) == [i \in 1..Len(assets[name]) |-> weight[name][assets[name][i]]]

\* every weight lies in 0..100
InRange(ws) == \A i \in 1..Len(ws) : ws[i] \in 0..100

\* C12: with every asset weight in 0..100, the construction of the portfolio
\* succeeds when the weights sum to exactly 100 and fails with ValueError
\* when their sum differs from 100, and after a failed construction no
\* command is processed.
C12_ConstructionChecksWeights ==
    \A name \in Investors :
        InRange(WeightsOf(name)) =>
            IF SumSeq(WeightsOf(name)) = 100
            THEN Len(hist) = 0 => error = ""
            ELSE /\ error = "ValueError"
                 /\ hist = <<>>
                 /\ out = <<>>
                 /\ \A a \in DOMAIN allocation[name] : allocation[name][a] = 0

\* a construction that failed on weights in range summing to less than 100
C12_Witness ==
    /\ error = "ValueError"
    /\ \E name \in Investors :
          /\ InRange(WeightsOf(name))
          /\ SumSeq(WeightsOf(name)) < 100

----------------------------------------------------------------------------
(* C13 *)

\* the last line was a rebalance that was permitted for month m
RebalancedIn(m) == Ran("rebalance") /\ prev.current_month = m /\ m \in {6, 12}

\* C13 as claimed: a snapshot recorded for (month, portfolio) is never removed
\* and is modified by no later command other than a permitted rebalance
\* overwriting the entry of the current month; a later change command never
\* alters it.
C13_SnapshotsAppendOnly ==
    Len(hist) > 0 =>
        \A m \in DOMAIN prev.log :
            /\ m \in DOMAIN log
            /\ \A n \in DOMAIN prev.log[m] :
                  /\ n \in DOMAIN log[m]
                  /\ log[m][n] # prev.log[m][n] => n = Last.investor /\ RebalancedIn(m)

\* C13 amended: a snapshot recorded for (month, portfolio) is never removed,
\* and it is modified only by a permitted rebalance of that portfolio while
\* current_month is that month or by a later change command of that portfolio
\* carrying the same month; either overwrites it with the balances of that
\* moment.  A change command carrying another month never alters it.
C13_SnapshotsOverwrittenInPlace ==
    Len(hist) > 0 =>
        \A m \in DOMAIN prev.log :
            /\ m \in DOMAIN log
            /\ \A n \in DOMAIN prev.log[m] :
                  /\ n \in DOMAIN log[m]
                  /\ log[m][n] # prev.log[m][n] =>
                        /\ n = Last.investor
                        /\ RebalancedIn(m) \/ (Ran("change") /\ LastCmd.month = m)
                        /\ log[m][n] = BalancesOf(allocation, n)

\* a change command has overwritten the snapshot of its month with other
\* balances while the snapshot of another month stayed as recorded
C13_Witness ==
    /\ Ran("change") /\ error = ""
    /\ Last.investor \in DOMAIN prev.log[LastCmd.month]
    /\ log[LastCmd.month][Last.investor] # prev.log[LastCmd.month][Last.investor]
    /\ \E m \in DOMAIN prev.log \ {LastCmd.month} :
          /\ Last.investor \in DOMAIN prev.log[m]
          /\ log[m] = prev.log[m]

----------------------------------------------------------------------------
(* C14 *)

\* C14: an allocate command is additive: every asset named in its values
\* ends at truncate(old allocation + amount), not at the amount, while the
\* assets it does not name, the recurring contribution, current_month and
\* the snapshot log stay as they were.
C14_AllocateAdds ==
    Ran("allocate") =>
        /\ error = ""
        /\ \A a \in DOMAIN allocation[Last.investor] :
              allocation[Last.investor][a] =
                  IF a \in DOMAIN LastCmd.values
                  THEN Plus(prev.allocation[Last.investor][a], LastCmd.values[a])
                  ELSE prev.allocation[Last.investor][a]
        /\ sip = prev.sip
        /\ current_month = prev.current_month
        /\ log = prev.log
        /\ out = prev.out

\* an allocate command with a fractional amount for an asset that already
\* held a balance, in a portfolio with a non-zero balance it does not name
C14_Witness ==
    /\ Ran("allocate") /\ error = ""
    /\ \E a \in DOMAIN LastCmd.values :
          /\ LastCmd.values[a].d # 1
          /\ prev.allocation[Last.investor][a] # 0
          /\ allocation[Last.investor][a] # prev.allocation[Last.investor][a]
          /\ allocation[Last.investor][a] # Truncate(LastCmd.values[a].n, LastCmd.values[a].d)
    /\ \E a \in DOMAIN allocation[Last.investor] \ DOMAIN LastCmd.values :
          allocation[Last.investor][a] # 0

----------------------------------------------------------------------------
(* C15 *)

RECURSIVE LastSip(_, _)
\* the mapping of the last sip command of the investor among the first k
\* lines read, and the contribution of zero for every asset without one
LastSip(name, k) ==
    IF k = 0 THEN [a \in DOMAIN allocation[name] |-> ZeroAmount]
    ELSE LET c == Cmd(hist[k].investor, hist[k].line)
         IN  IF hist[k].investor = name /\ c.kind = "command" /\ c.name = "sip"
             THEN c.values
             ELSE LastSip(name, k - 1)

\* C15: a sip command replaces the stored contribution mapping by its own
\* and changes no allocation, current_month, snapshot or output; the
\* contribution a change command with month >= 2 applies is the mapping of
\* the last sip command before it, not a sum or a merge of the earlier ones.
C15_LastSipWins ==
    /\ Ran("sip") =>
          /\ error = ""
          /\ sip[Last.investor] = LastCmd.values
          /\ allocation = prev.allocation
          /\ current_month = prev.current_month
          /\ log = prev.log
          /\ out = prev.out
    /\ Ran("change") /\ LastCmd.month >= 2 =>
          \A a \in DOMAIN allocation[Last.investor] :
              allocation[Last.investor][a] =
                  Times(Plus(prev.allocation[Last.investor][a],
                             AmountOf(LastSip(Last.investor, Len(hist) - 1), a)),
                        AmountOf(LastCmd.values, a))

\* a change command with month >= 2 after two sip commands, the earlier one
\* with amounts for more assets than the last one and another amount for
\* the asset both name
C15_Witness ==
    /\ Ran("change") /\ LastCmd.month >= 2 /\ error = ""
    /\ \E i, j \in 1..(Len(hist) - 1) :
          LET ci == Cmd(hist[i].investor, hist[i].line)
              cj == Cmd(hist[j].investor, hist[j].line)
          IN  /\ i < j
              /\ ci.kind = "command" /\ ci.name = "sip"
              /\ cj.kind = "command" /\ cj.name = "sip"
              /\ cj.values = prev.sip[Last.investor]
              /\ DOMAIN cj.values # {}
              /\ DOMAIN ci.values \ DOMAIN cj.values # {}
              /\ \E a \in DOMAIN cj.values \cap DOMAIN ci.values :
                    cj.values[a] # ci.values[a] /\ ci.values[a].n # 0

----------------------------------------------------------------------------
(* C16 *)

\* the lines among h that were read for the investor, in input order
LinesOf(name, h) ==
    LET ReadFor(r) == r.investor = name
        mine       == SelectSeq(h, ReadFor)
    IN  [i \in 1..Len(mine) |-> mine[i].line]

\* the lines among q that hold at least one token, in input order
WithTokens(q) ==
    LET HoldsToken(line) == Len(line) > 0
    IN  SelectSeq(q, HoldsToken)

\* the Commands the parser has yielded for the lines read for the investor
Yielded(name) == parse_list_2_commands(LinesOf(name, hist), assets[name])

\* the first token of every input line, lower-cased
LowerFirst == [line \in Lines |-> IF Len(line) = 0 THEN "" ELSE lower(line[1])]

\* C16 as claimed: as long as no value token is rejected, the parser has
\* yielded exactly one Command per input line read, in input order, also for
\* lines with zero tokens and lines with a single token.
C16_OneCommandPerLine ==
    error # "ValueError" =>
        \A name \in DOMAIN assets :
            LET read == LinesOf(name, hist)
                cmds == parse_list_2_commands(read, assets[name])
            IN  /\ Len(cmds) = Len(read)
                /\ \A k \in 1..Len(cmds) : cmds[k].name = LowerFirst[read[k]]

\* C16 amended: as long as no value token is rejected, the parser has yielded
\* exactly one Command per input line that holds at least one token, in
\* input order, and none for a line with zero tokens; the Command of a line
\* with a single token has the lower-cased token as its name, no values and
\* month 0.
C16_OneCommandPerLineWithTokens ==
    error # "ValueError" =>
        \A name \in DOMAIN assets :
            LET read == WithTokens(LinesOf(name, hist))
                cmds == Yielded(name)
            IN  /\ Len(cmds) = Len(read)
                /\ \A k \in 1..Len(read) :
                      /\ cmds[k].name = LowerFirst[read[k]]
                      /\ Len(read[k]) = 1 =>
                            /\ cmds[k].values = EmptyDict
                            /\ cmds[k].month = 0

\* a run without exception over a line with zero tokens, a line with a single
\* token and a line with more, for which two Commands were yielded
C16_Witness ==
    /\ error = ""
    /\ Len(hist) = 3
    /\ \E i, j, k \in 1..3 :
          Len(hist[i].line) = 0 /\ Len(hist[j].line) = 1 /\ Len(hist[k].line) > 1
    /\ Len(Yielded(Last.investor)) = 2

----------------------------------------------------------------------------
(* C17 *)

\* the 1-based calendar index of the month a token names in full, in any
\* case, and 0 for any other token
MonthIndex(token) ==
    IF \E i \in 1..12 : MonthNames[i] = lower(token)
    THEN CHOOSE i \in 1..12 : MonthNames[i] = lower(token)
    ELSE 0

\* the value tokens of a line with at least 2 tokens: the tokens after the
\* first, without the last one when it names a month
ValueTokens(line) ==
    IF MonthIndex(line[Len(line)]) # 0
    THEN SubSeq(line, 2, Len(line) - 1)
    ELSE SubSeq(line, 2, Len(line))

\* month and values as the claim gives them for a line with at least 2 tokens
Claimed(line, order) ==
    LET k == Min(Len(ValueTokens(line)), Len(order))
    IN  [month  |-> MonthIndex(line[Len(line)]),
         assets |-> {order[i] : i \in 1..k},
         pairs  |-> [i \in 1..k |-> parse_nums(ValueTokens(line)[i]).v]]

\* Claimed for every input line with at least 2 tokens and every asset order
ClaimedCommands ==
    [order \in {p.order : p \in Portfolios} |->
        [line \in {l \in Lines : Len(l) >= 2} |-> Claimed(line, order)]]

\* C17: the Command parsed from a line with at least 2 tokens has as month
\* the 1-based index of the month its last token names in full (in any case)
\* and 0 when the last token names none, and its values pair the i-th asset
\* name with the i-th value token for i up to the smaller of the number of
\* value tokens and the number of asset names: surplus value tokens are
\* dropped and assets without a value token are left unmapped.
C17_MonthAndPositionalValues ==
    Len(hist) > 0 /\ Len(Last.line) >= 2 /\ LastCmd.kind = "command" =>
        LET order == assets[Last.investor]
            want  == ClaimedCommands[order][Last.line]
        IN  /\ LastCmd.month = want.month
            /\ DOMAIN LastCmd.values = want.assets
            /\ \A i \in 1..Len(want.pairs) : LastCmd.values[order[i]] = want.pairs[i]

\* a run that has parsed a line ending in a month name in mixed case, a line
\* with more value tokens than assets and a line with fewer
C17_Witness ==
    /\ error = ""
    /\ \E i, j, k \in 1..Len(hist) :
          LET order == assets[Last.investor]
          IN  /\ Len(hist[i].line) >= 2
              /\ Cmd(hist[i].investor, hist[i].line).month = 6
              /\ hist[i].line[Len(hist[i].line)] \notin {"JUNE", "june"}
              /\ Len(hist[j].line) >= 2 /\ Len(ValueTokens(hist[j].line)) > Len(order)
              /\ DOMAIN Cmd(hist[j].investor, hist[j].line).values = DOMAIN allocation[Last.investor]
              /\ Len(hist[k].line) >= 2 /\ Len(ValueTokens(hist[k].line)) < Len(order)
              /\ DOMAIN Cmd(hist[k].investor, hist[k].line).values # DOMAIN allocation[Last.investor]
              /\ DOMAIN Cmd(hist[k].investor, hist[k].line).values # {}

----------------------------------------------------------------------------
(* C18 *)

\* no line printed
NoLine == [text |-> "none", nums |-> <<>>]

\* the state of an engine that holds the portfolio of the investor alone,
\* before its first line: snaps maps the months recorded to their snapshots
AloneInit(name) ==
    [alloc |-> [a \in DOMAIN allocation[name] |-> 0],
     sip   |-> InitialSip(assets[name]),
     month |-> NoMonth,
     snaps |-> EmptyDict,
     last  |-> NoLine,
     error |-> ""]

\* snaps with the balances recorded under the month
Snapped(snaps, month, balances) ==
    [m \in DOMAIN snaps \cup {month} |-> IF m = month THEN balances ELSE snaps[m]]

\* what the engine that holds the portfolio alone makes of the parsed line c
\* in the state st; last is the line it prints, error the exception raised
AloneStep(name, st, c) ==
    IF st.error # "" THEN st
    ELSE IF c.kind = "error" THEN [st EXCEPT !.last = NoLine, !.error = "ValueError"]
    ELSE IF c.kind = "none" THEN [st EXCEPT !.last = NoLine]
    ELSE IF c.name = "allocate"
    THEN [st EXCEPT !.last = NoLine, !.alloc = allocate(st.alloc, c.values)]
    ELSE IF c.name = "sip"
    THEN [st EXCEPT !.last = NoLine, !.sip = c.values]
    ELSE IF c.name = "change"
    THEN LET new == ChangedAllocation(st.alloc, st.sip, c.values, c.month)
         IN  IF c.month \in LogKeys
             THEN [st EXCEPT !.last = NoLine, !.month = c.month, !.alloc = new,
                             !.snaps = Snapped(st.snaps, c.month, balance(new, assets[name]))]
             ELSE [st EXCEPT !.last = NoLine, !.month = c.month, !.alloc = new,
                             !.error = "KeyError"]
    ELSE IF c.name = "balance"
    THEN IF c.month \in DOMAIN st.snaps
         THEN [st EXCEPT !.last = Printed(st.snaps[c.month])]
         ELSE [st EXCEPT !.last = NoLine, !.error = "KeyError"]
    ELSE IF c.name = "rebalance"
    THEN IF st.month = NoMonth
         THEN [st EXCEPT !.last = NoLine, !.error = "AttributeError"]
         ELSE IF st.month \notin {6, 12}
         THEN [st EXCEPT !.last = CannotRebalance]
         ELSE LET new == rebalance(st.alloc, assets[name], weight[name])
              IN  IF st.month \in LogKeys
                  THEN [st EXCEPT !.alloc = new,
                                  !.snaps = Snapped(st.snaps, st.month, balance(new, assets[name])),
                                  !.last = Printed(balance(new, assets[name]))]
                  ELSE [st EXCEPT !.last = NoLine, !.alloc = new, !.error = "KeyError"]
    ELSE [st EXCEPT !.last = NoLine]

RECURSIVE AloneRun(_, _)
\* the state of the engine that holds the portfolio alone after the lines q
AloneRun(name, q) ==
    IF Len(q) = 0 THEN AloneInit(name)
    ELSE AloneStep(name, AloneRun(name, SubSeq(q, 1, Len(q) - 1)),
                   Commands[assets[name]][q[Len(q)]])

\* the portfolio's own command stream, dispatched to an engine that holds
\* no other portfolio
Alone(name) == AloneRun(name, LinesOf(name, hist))

\* the snapshots the log holds for the portfolio, by month
SnapsOf(lg, name) == [m \in {k \in DOMAIN lg : name \in DOMAIN lg[k]} |-> lg[m][name]]

\* the line the last command has printed
LastPrinted == IF Len(out) > Len(prev.out) THEN out[Len(out)] ELSE NoLine

\* the allocations, snapshots and output of the portfolio are those of its
\* own command stream alone
SameAsAlone(name) ==
    /\ allocation[name] = Alone(name).alloc
    /\ SnapsOf(log, name) = Alone(name).snaps
    /\ Len(hist) > 0 /\ Last.investor = name =>
          /\ LastPrinted = Alone(name).last
          /\ error = Alone(name).error

\* the stream of the portfolio holds a rebalance command
Rebalances(name) ==
    \E i \in 1..Len(hist) :
        /\ hist[i].investor = name
        /\ Cmd(name, hist[i].line).kind = "command"
        /\ Cmd(name, hist[i].line).name = "rebalance"

\* C18 as claimed: the allocations, snapshots and printed output that the
\* command stream of one portfolio produces are the same whatever commands
\* are dispatched, before or in between, to another portfolio of the engine
\* (stated for streams that raise no exception when dispatched alone).
C18_PortfoliosIndependent ==
    \A name \in DOMAIN assets :
        Alone(name).error = "" => SameAsAlone(name)

\* C18 amended: the portfolios of an engine share current_month, which is
\* the month of the last change command dispatched to any of them, and
\* nothing else: a command dispatched to one portfolio leaves the
\* allocations, contribution and snapshots of every other portfolio as they
\* were, and a portfolio whose stream holds no rebalance command has the
\* allocations, snapshots and output of its stream alone, whatever is
\* dispatched to another portfolio.
C18_IndependentButForMonth ==
    /\ current_month = LastChangeMonth(hist)
    /\ \A name \in DOMAIN assets :
          /\ Len(hist) > 0 /\ Last.investor # name =>
                /\ allocation[name] = prev.allocation[name]
                /\ sip[name] = prev.sip[name]
                /\ SnapsOf(log, name) = SnapsOf(prev.log, name)
          /\ ~Rebalances(name) =>
                /\ SameAsAlone(name)
                /\ sip[name] = Alone(name).sip

\* a change command of one portfolio has taken effect and was recorded after
\* an earlier command of the same portfolio and, in between, a change
\* command of the other portfolio for another month
C18_Witness ==
    /\ Ran("change") /\ error = ""
    /\ allocation[Last.investor] # prev.allocation[Last.investor]
    /\ Len(LinesOf(Last.investor, hist)) >= 2
    /\ prev.current_month \notin {NoMonth, current_month}
    /\ \E other \in DOMAIN assets \ {Last.investor} :
          /\ hist[Len(hist) - 1].investor = other
          /\ prev.current_month \in DOMAIN SnapsOf(log, other)

----------------------------------------------------------------------------
(* C19 *)

\* C19: in every reachable state every asset has the weight its portfolio
\* was constructed with, so the weights of a portfolio still sum to exactly
\* 100.
C19_WeightsFixed ==
    \A name \in DOMAIN assets :
        /\ \E p \in Portfolios :
              /\ assets[name] = p.order
              /\ WeightsOf(name) = p.weights
        /\ DOMAIN weight[name] = DOMAIN allocation[name]
        /\ SumSeq(WeightsOf(name)) = 100

\* allocate, change and a permitted rebalance have all moved the balances
\* of a portfolio away from the shares its weights give
C19_Witness ==
    /\ error = ""
    /\ \E i, j, k \in 1..Len(hist) :
          /\ i < j /\ j < k
          /\ Cmd(hist[i].investor, hist[i].line).name = "allocate"
          /\ Cmd(hist[j].investor, hist[j].line).name = "rebalance"
          /\ Cmd(hist[k].investor, hist[k].line).name = "change"
    /\ \E n \in 1..Len(out) : out[n].text = "" /\ SumSeq(out[n].nums) > 0
    /\ allocation[Last.investor] # Rebalanced(allocation, Last.investor)

====
